---------------------------- MODULE Spec2Model ----------------------------
(***************************************************************************)
(* Model of scripts/generate-zkemail-proof/src/main.rs: the driver that    *)
(* builds a sample "signHash" email, runs it through the email_tx_builder  *)
(* library calls (parse, encode command, generate proof), assembles an     *)
(* EmailAuthMsg and writes it as JSON to the output path.                  *)
(*                                                                         *)
(* The script may be executed several times, also at the same time: each   *)
(* execution is one run of generate_proof with its own locals; executions  *)
(* share only the output file.  The library calls are external: each one   *)
(* answers Ok or Err, and the proving call may also never answer.          *)
(* created_at / updated_at (chrono::Utc::now()) are not modelled: nothing   *)
(* in the driver reads them.                                               *)
(***************************************************************************)
EXTENDS Integers, Sequences, FiniteSets, TLC

\* Number of executions of generate_proof explored (Uuid::new_v4 is drawn
\* that many times).
MaxRuns == 2

\* The executions that may overlap in time.
Procs == {"run_a", "run_b"}

(***************************************************************************)
(* Option and Result values.                                               *)
(***************************************************************************)
None == <<>>
Some(v) == <<v>>
IsSome(o) == o # None
Unwrap(o) == o[1]

Ok == [ok |-> TRUE, context |-> "", kind |-> ""]
Err(context, kind) == [ok |-> FALSE, context |-> context, kind |-> kind]

(***************************************************************************)
(* Inputs of generate_proof.  The first value of each set is the one main  *)
(* passes; the second is another well-formed value of the same type.       *)
(***************************************************************************)
Hashes == {"0x0123456789abcdef0123456789abcdef0123456789abcdef0123456789abcdef"}
Domains == {"example.com"}
Salts ==
    {"0x046582bce36cdd0a8953b9d40b8f20d58302bacf3bcecffeb6741c98a52725e2",
     "0x1162ebff40918afe5305e68396f0283eb675901d0387f97d21928d423aaa0b54"}
TemplateIdStrs ==
    {"0x0000000000000000000000000000000000000000000000000000000000000001",
     "0x0000000000000000000000000000000000000000000000000000000000000002"}
output_path == "../test/fixtures/zkemail/valid-proof.json"

\* U256::from_str: the hexadecimal string parsed to its number.
U256_from_str(s) ==
    CASE s = "0x0000000000000000000000000000000000000000000000000000000000000001" -> 1
      [] s = "0x0000000000000000000000000000000000000000000000000000000000000002" -> 2

\* U256::zero()
U256_zero == 0

\* Outcomes of the external calls.  The driver passes every Err on with `?`
\* whatever its kind; the kinds are named as the library's error taxonomy
\* names them.  A proof is an opaque byte string.
ParseErrors == {"ParseError"}
CommandErrors == {"TemplateMismatch", "ParameterTypeError"}
ProofErrors == {"BackendUnavailable", "WitnessRejected", "PublicInputMismatch"}
IoErrors == {"IoError"}
ProofBytes == {"0xa1", "0xb2"}

(***************************************************************************)
(* Formatted text: the literal pieces of a format string and the arguments *)
(* interpolated into it, in order.                                         *)
(***************************************************************************)
Lit(s) == [lit |-> TRUE, text |-> s]
Arg(s) == [lit |-> FALSE, text |-> s]

\* Whether value v was interpolated into some field of a record of texts.
Mentions(rec, v) ==
    \E f \in DOMAIN rec : \E i \in DOMAIN rec[f] : rec[f][i] = Arg(v)

\* Variant: the email body also interpolates account_salt.
generate_sample_email_with_salt(hash, domain, account_salt) ==
    [ From |-> <<Lit("test@"), Arg(domain)>>,
      To |-> <<Lit("relayer@example.com")>>,
      Subject |-> <<Lit("signHash "), Arg(hash)>>,
      MessageID |-> <<Lit("<test123@"), Arg(domain), Lit(">")>>,
      Date |-> <<Lit("Thu, 21 Mar 2024 12:00:00 +0000")>>,
      DKIMSignature |-> <<Lit("v=1; a=rsa-sha256; d="), Arg(domain),
                          Lit("; s=selector; h=from:to:subject; bh=base64==; b=signature==")>>,
      Body |-> <<Lit("This is a test email to sign hash "), Arg(hash),
                 Lit(" with salt "), Arg(account_salt), Lit(".")>> ]

\* generate_sample_email: account_salt is accepted and not used.
generate_sample_email(hash, domain, account_salt) ==
    [ From |-> <<Lit("test@"), Arg(domain)>>,
      To |-> <<Lit("relayer@example.com")>>,
      Subject |-> <<Lit("signHash "), Arg(hash)>>,
      MessageID |-> <<Lit("<test123@"), Arg(domain), Lit(">")>>,
      Date |-> <<Lit("Thu, 21 Mar 2024 12:00:00 +0000")>>,
      DKIMSignature |-> <<Lit("v=1; a=rsa-sha256; d="), Arg(domain),
                          Lit("; s=selector; h=from:to:subject; bh=base64==; b=signature==")>>,
      Body |-> <<Lit("This is a test email to sign hash "), Arg(hash), Lit(".")>> ]

VARIABLES
    pc,              \* per execution: where generate_proof stands
    args,            \* per execution: the arguments of generate_proof
    email,           \* line 97
    request,         \* line 98
    parsed_email,    \* line 102
    command_params_encoded, \* line 109
    email_proof,     \* line 114
    email_auth_msg,  \* line 119
    json_output,     \* line 127
    result,          \* what generate_proof returned
    calls,           \* per execution: the library calls made so far, in order,
                     \* each with the request it was handed (None for the parser)
    logged,          \* per execution: the records handed to the logger
    stdout,          \* per execution: what println! printed
    file,            \* the content at output_path
    uuid_counter,    \* how many ids Uuid::new_v4 has drawn
    backend_calls,   \* per request id: calls of generate_email_proof
    assembled,       \* per request id: EmailAuthMsg values built
    writes           \* per request id: successful writes to output_path

locals == <<pc, args, email, request, parsed_email, command_params_encoded,
            email_proof, email_auth_msg, json_output, result, calls, logged, stdout>>
vars == <<locals, file, uuid_counter, backend_calls, assembled, writes>>

Ids == 1..MaxRuns

\* The file system at output_path: no file, a file cut short by a failed
\* write, or the JSON text of a completed write.
NoFile == [state |-> "absent"]
Truncated == [state |-> "truncated"]
Written(json) == [state |-> "written", json |-> json]

\* Variant: an id taken from a coarse clock, so that two draws close in
\* time get the same id.
Uuid_from_clock == (uuid_counter \div 2) + 1

\* Uuid::new_v4(): 122 random bits, taken as never repeating.
Uuid_new_v4 == uuid_counter + 1

\* Variant: the request id derived from the inputs instead of drawn.
create_mock_request_derived_id(template_id, account_salt) ==
    [ id |-> U256_from_str(template_id),
      subject |-> "signHash",
      email_tx_auth |->
          [ template_id |-> U256_from_str(template_id),
            account_salt |-> Some(account_salt),
            chain |-> Some("sepolia"),
            dkim_contract_address |-> Some("0x0000...0000") ],
      status |-> "Received",
      from_email |-> Some("test@example.com"),
      reply_to_message_id |-> None ]

\* create_mock_request
create_mock_request(template_id, account_salt) ==
    [ id |-> Uuid_new_v4,
      subject |-> "signHash",
      email_tx_auth |->
          [ template_id |-> U256_from_str(template_id),
            account_salt |-> Some(account_salt),
            chain |-> Some("sepolia"),
            dkim_contract_address |-> Some("0x0000...0000") ],
      status |-> "Received",
      from_email |-> Some("test@example.com"),
      reply_to_message_id |-> None ]

\* setup_logger: a root logger over slog::Discard; every record handed to it
\* is dropped.
setup_logger == [drain |-> "Discard"]

\* create_mock_relayer_state: no proving deadline is among the settings.
create_mock_relayer_state ==
    [ config |-> [ modal_token_id |-> None,
                   modal_token_secret |-> None,
                   domain |-> "example.com",
                   db_url |-> "sqlite::memory:",
                   smtp_url |-> "http://localhost:3000",
                   imap_url |-> "http://localhost:3001",
                   chains |-> <<>>,
                   prover_url |-> "http://localhost:3002" ],
      logger |-> setup_logger ]

\* ParsedEmail::new_from_raw_email on success: the same headers and body,
\* structured.
ParsedEmail(raw) == [canonicalized_header |-> [f \in DOMAIN raw \ {"Body"} |-> raw[f]],
                     canonicalized_body |-> raw.Body]

\* get_encoded_command_params on success: the ABI encoding of the subject's
\* parameter.
EncodedParams(raw) == <<[abi |-> "uint256", value |-> raw.Subject[2].text]>>

\* Variant: the message always names template 1.
MsgTemplateIdConst(req) == U256_from_str("0x0000000000000000000000000000000000000000000000000000000000000001")

\* The template id placed in the EmailAuthMsg (line 120).
MsgTemplateId(req) == req.email_tx_auth.template_id

\* The byte length of the text before a subject's first interpolated value.
RECURSIVE LiteralPrefixLen(_)
LiteralPrefixLen(parts) ==
    IF parts = <<>> \/ ~parts[1].lit THEN 0
    ELSE Len(parts[1].text) + LiteralPrefixLen(Tail(parts))

\* Variant: the prefix length computed from the subject.
SkippedPrefixFromSubject(raw) == LiteralPrefixLen(raw.Subject)

\* The skipped_command_prefix placed in the EmailAuthMsg (line 122).
SkippedCommandPrefix(raw) == U256_zero

\* The EmailAuthMsg literal, lines 119-124.
EmailAuthMsg(req, raw, params, proof) ==
    [ template_id |-> MsgTemplateId(req),
      command_params |-> params,
      skipped_command_prefix |-> SkippedCommandPrefix(raw),
      proof |-> proof ]

\* json!({...}), lines 127-133.
JsonOutput(msg, a) ==
    [ emailAuthMsg |-> msg,
      hash |-> a.hash,
      domain |-> a.domain,
      accountSalt |-> a.account_salt,
      templateId |-> a.template_id ]

NoArgs == [hash |-> "", domain |-> "", account_salt |-> "", template_id |-> ""]

Init ==
    /\ pc = [p \in Procs |-> "idle"]
    /\ args = [p \in Procs |-> NoArgs]
    /\ email = [p \in Procs |-> None]
    /\ request = [p \in Procs |-> None]
    /\ parsed_email = [p \in Procs |-> None]
    /\ command_params_encoded = [p \in Procs |-> None]
    /\ email_proof = [p \in Procs |-> None]
    /\ email_auth_msg = [p \in Procs |-> None]
    /\ json_output = [p \in Procs |-> None]
    /\ result = [p \in Procs |-> None]
    /\ calls = [p \in Procs |-> <<>>]
    /\ logged = [p \in Procs |-> <<>>]
    /\ stdout = [p \in Procs |-> <<>>]
    /\ file = NoFile
    /\ uuid_counter = 0
    /\ backend_calls = [i \in Ids |-> 0]
    /\ assembled = [i \in Ids |-> 0]
    /\ writes = [i \in Ids |-> 0]

shared == <<file, uuid_counter, backend_calls, assembled, writes>>

\* Variant: the error is replaced by its context message alone.
FailLosingKind(p, context, kind) ==
    /\ result' = [result EXCEPT ![p] = Some(Err(context, ""))]
    /\ pc' = [pc EXCEPT ![p] = "done"]

\* generate_proof returns with an error: `?` on a library call's Err.
Fail(p, context, kind) ==
    /\ result' = [result EXCEPT ![p] = Some(Err(context, kind))]
    /\ pc' = [pc EXCEPT ![p] = "done"]

\* main / generate_proof entered, lines 97-99.
Invoke(p) ==
    /\ pc[p] \in {"idle", "done"}
    /\ uuid_counter < MaxRuns
    /\ \E hash \in Hashes, domain \in Domains, account_salt \in Salts,
          template_id \in TemplateIdStrs :
          /\ args' = [args EXCEPT ![p] =
                 [hash |-> hash, domain |-> domain,
                  account_salt |-> account_salt, template_id |-> template_id]]
          /\ email' = [email EXCEPT ![p] =
                 Some(generate_sample_email(hash, domain, account_salt))]
          /\ request' = [request EXCEPT ![p] =
                 Some(create_mock_request(template_id, account_salt))]
    /\ uuid_counter' = uuid_counter + 1
    /\ pc' = [pc EXCEPT ![p] = "parse"]
    /\ parsed_email' = [parsed_email EXCEPT ![p] = None]
    /\ command_params_encoded' = [command_params_encoded EXCEPT ![p] = None]
    /\ email_proof' = [email_proof EXCEPT ![p] = None]
    /\ email_auth_msg' = [email_auth_msg EXCEPT ![p] = None]
    /\ json_output' = [json_output EXCEPT ![p] = None]
    /\ result' = [result EXCEPT ![p] = None]
    /\ calls' = [calls EXCEPT ![p] = <<>>]
    /\ logged' = [logged EXCEPT ![p] = <<>>]
    /\ stdout' = [stdout EXCEPT ![p] = <<>>]
    /\ UNCHANGED <<file, backend_calls, assembled, writes>>

\* Variant: after parsing, the run goes straight to proving with empty
\* command parameters.
ParseSkippingEncode(p) ==
    /\ pc[p] = "parse"
    /\ calls' = [calls EXCEPT ![p] =
           Append(@, [fn |-> "new_from_raw_email", request |-> None])]
    /\ \/ /\ parsed_email' = [parsed_email EXCEPT ![p] = Some(ParsedEmail(Unwrap(email[p])))]
          /\ logged' = [logged EXCEPT ![p] =
                 Append(@, [msg |-> "Parsed email: ", value |-> ParsedEmail(Unwrap(email[p]))])]
          /\ command_params_encoded' = [command_params_encoded EXCEPT ![p] = Some(<<>>)]
          /\ pc' = [pc EXCEPT ![p] = "prove"]
          /\ UNCHANGED result
       \/ /\ \E kind \in ParseErrors : Fail(p, "Failed to parse email", kind)
          /\ UNCHANGED <<parsed_email, logged, command_params_encoded>>
    /\ UNCHANGED <<args, email, request, email_proof,
                   email_auth_msg, json_output, stdout, shared>>

\* Lines 101-106: parse the email, log it.
Parse(p) ==
    /\ pc[p] = "parse"
    /\ calls' = [calls EXCEPT ![p] =
           Append(@, [fn |-> "new_from_raw_email", request |-> None])]
    /\ \/ /\ parsed_email' = [parsed_email EXCEPT ![p] = Some(ParsedEmail(Unwrap(email[p])))]
          /\ logged' = [logged EXCEPT ![p] =
                 Append(@, [msg |-> "Parsed email: ", value |-> ParsedEmail(Unwrap(email[p]))])]
          /\ pc' = [pc EXCEPT ![p] = "encode"]
          /\ UNCHANGED result
       \/ /\ \E kind \in ParseErrors : Fail(p, "Failed to parse email", kind)
          /\ UNCHANGED <<parsed_email, logged>>
    /\ UNCHANGED <<args, email, request, command_params_encoded, email_proof,
                   email_auth_msg, json_output, stdout, shared>>

\* Lines 108-111: encode the command parameters.
Encode(p) ==
    /\ pc[p] = "encode"
    /\ calls' = [calls EXCEPT ![p] =
           Append(@, [fn |-> "get_encoded_command_params", request |-> request[p]])]
    /\ \/ /\ command_params_encoded' =
                 [command_params_encoded EXCEPT ![p] = Some(EncodedParams(Unwrap(email[p])))]
          /\ pc' = [pc EXCEPT ![p] = "prove"]
          /\ UNCHANGED result
       \/ /\ \E kind \in CommandErrors :
                 Fail(p, "Failed to get encoded command params", kind)
          /\ UNCHANGED command_params_encoded
    /\ UNCHANGED <<args, email, request, parsed_email, email_proof,
                   email_auth_msg, json_output, logged, stdout, shared>>

\* Variant: the request is marked Proving when the proving call is made.
ProveCallMarkingProving(p) ==
    /\ pc[p] = "prove"
    /\ calls' = [calls EXCEPT ![p] =
           Append(@, [fn |-> "generate_email_proof", request |-> request[p]])]
    /\ backend_calls' = [backend_calls EXCEPT ![Unwrap(request[p]).id] = @ + 1]
    /\ request' = [request EXCEPT ![p] = Some([Unwrap(@) EXCEPT !.status = "Proving"])]
    /\ pc' = [pc EXCEPT ![p] = "proving"]
    /\ UNCHANGED <<args, email, parsed_email, command_params_encoded,
                   email_proof, email_auth_msg, json_output, result, logged, stdout,
                   file, uuid_counter, assembled, writes>>

\* Line 114: generate_email_proof is called and awaited.
ProveCall(p) ==
    /\ pc[p] = "prove"
    /\ calls' = [calls EXCEPT ![p] =
           Append(@, [fn |-> "generate_email_proof", request |-> request[p]])]
    /\ backend_calls' = [backend_calls EXCEPT ![Unwrap(request[p]).id] = @ + 1]
    /\ pc' = [pc EXCEPT ![p] = "proving"]
    /\ UNCHANGED <<args, email, request, parsed_email, command_params_encoded,
                   email_proof, email_auth_msg, json_output, result, logged, stdout,
                   file, uuid_counter, assembled, writes>>

\* Variant: a failed proving call may be made again, a bounded number of
\* times.
ProveReturnRetrying(p) ==
    /\ pc[p] = "proving"
    /\ \/ /\ \E proof \in ProofBytes :
                 email_proof' = [email_proof EXCEPT ![p] = Some(proof)]
          /\ pc' = [pc EXCEPT ![p] = "assemble"]
          /\ UNCHANGED result
       \/ /\ Len(calls[p]) < 5
          /\ pc' = [pc EXCEPT ![p] = "prove"]
          /\ UNCHANGED <<result, email_proof>>
       \/ /\ \E kind \in ProofErrors :
                 Fail(p, "Failed to generate email proof", kind)
          /\ UNCHANGED email_proof
    /\ UNCHANGED <<args, email, request, parsed_email, command_params_encoded,
                   email_auth_msg, json_output, calls, logged, stdout, shared>>

\* Lines 114-116: the awaited call answers.
ProveReturn(p) ==
    /\ pc[p] = "proving"
    /\ \/ /\ \E proof \in ProofBytes :
                 email_proof' = [email_proof EXCEPT ![p] = Some(proof)]
          /\ pc' = [pc EXCEPT ![p] = "assemble"]
          /\ UNCHANGED result
       \/ /\ \E kind \in ProofErrors :
                 Fail(p, "Failed to generate email proof", kind)
          /\ UNCHANGED email_proof
    /\ UNCHANGED <<args, email, request, parsed_email, command_params_encoded,
                   email_auth_msg, json_output, calls, logged, stdout, shared>>

\* Variant: the request is marked Proved when the message is assembled.
AssembleMarkingProved(p) ==
    /\ pc[p] = "assemble"
    /\ LET msg == EmailAuthMsg(Unwrap(request[p]), Unwrap(email[p]),
                               Unwrap(command_params_encoded[p]), Unwrap(email_proof[p]))
       IN /\ email_auth_msg' = [email_auth_msg EXCEPT ![p] = Some(msg)]
          /\ json_output' = [json_output EXCEPT ![p] = Some(JsonOutput(msg, args[p]))]
    /\ request' = [request EXCEPT ![p] = Some([Unwrap(@) EXCEPT !.status = "Proved"])]
    /\ assembled' = [assembled EXCEPT ![Unwrap(request[p]).id] = @ + 1]
    /\ pc' = [pc EXCEPT ![p] = "write"]
    /\ UNCHANGED <<args, email, parsed_email, command_params_encoded,
                   email_proof, result, calls, logged, stdout,
                   file, uuid_counter, backend_calls, writes>>

\* Lines 118-133: build the EmailAuthMsg and the JSON value.
Assemble(p) ==
    /\ pc[p] = "assemble"
    /\ LET msg == EmailAuthMsg(Unwrap(request[p]), Unwrap(email[p]),
                               Unwrap(command_params_encoded[p]), Unwrap(email_proof[p]))
       IN /\ email_auth_msg' = [email_auth_msg EXCEPT ![p] = Some(msg)]
          /\ json_output' = [json_output EXCEPT ![p] = Some(JsonOutput(msg, args[p]))]
    /\ assembled' = [assembled EXCEPT ![Unwrap(request[p]).id] = @ + 1]
    /\ pc' = [pc EXCEPT ![p] = "write"]
    /\ UNCHANGED <<args, email, request, parsed_email, command_params_encoded,
                   email_proof, result, calls, logged, stdout,
                   file, uuid_counter, backend_calls, writes>>

\* Lines 135-144: create the directory, write the file, print, return Ok.
WriteOutput(p) ==
    /\ pc[p] = "write"
    /\ \/ /\ \E kind \in IoErrors : Fail(p, "Failed to create output directory", kind)
          /\ UNCHANGED <<file, writes, stdout>>
       \/ /\ \E kind \in IoErrors : Fail(p, "Failed to write proof to file", kind)
          /\ file' \in {file, Truncated}
          /\ UNCHANGED <<writes, stdout>>
       \/ /\ file' = Written(Unwrap(json_output[p]))
          /\ writes' = [writes EXCEPT ![Unwrap(request[p]).id] = @ + 1]
          /\ stdout' = [stdout EXCEPT ![p] =
                 Append(@, <<Lit("Successfully generated and saved proof to "), Arg(output_path)>>)]
          /\ result' = [result EXCEPT ![p] = Some(Ok)]
          /\ pc' = [pc EXCEPT ![p] = "done"]
    /\ UNCHANGED <<args, email, request, parsed_email, command_params_encoded,
                   email_proof, email_auth_msg, json_output, calls, logged,
                   uuid_counter, backend_calls, assembled>>

Next ==
    \E p \in Procs :
        \/ Invoke(p)
        \/ Parse(p)
        \/ Encode(p)
        \/ ProveCall(p)
        \/ ProveReturn(p)
        \/ Assemble(p)
        \/ WriteOutput(p)

Spec == Init /\ [][Next]_vars

(***************************************************************************)
(* Properties.                                                             *)
(***************************************************************************)
Req(p) == Unwrap(request[p])
Msg(p) == Unwrap(email_auth_msg[p])
Started(p) == IsSome(request[p])
Fns(p) == [i \in 1..Len(calls[p]) |-> calls[p][i].fn]
Count(p, fn) == Cardinality({i \in 1..Len(calls[p]) : calls[p][i].fn = fn})
IsPrefix(s, t) == Len(s) <= Len(t) /\ \A i \in 1..Len(s) : s[i] = t[i]
StageOrder == <<"new_from_raw_email", "get_encoded_command_params", "generate_email_proof">>
StageContexts == {"Failed to parse email", "Failed to get encoded command params",
                  "Failed to generate email proof"}
Returned(p) == IsSome(result[p])
ReturnedErr(p) == Returned(p) /\ ~Unwrap(result[p]).ok
StageFailed(p) == ReturnedErr(p) /\ Unwrap(result[p]).context \in StageContexts
BackendTimedOut(p) ==
    result[p] = Some(Err("Failed to generate email proof", "BackendUnavailable"))
MainArgs ==
    [ hash |-> "0x0123456789abcdef0123456789abcdef0123456789abcdef0123456789abcdef",
      domain |-> "example.com",
      account_salt |-> "0x046582bce36cdd0a8953b9d40b8f20d58302bacf3bcecffeb6741c98a52725e2",
      template_id |-> "0x0000000000000000000000000000000000000000000000000000000000000001" ]
FileArgs ==
    [ hash |-> file.json.hash, domain |-> file.json.domain,
      account_salt |-> file.json.accountSalt, template_id |-> file.json.templateId ]
InFlight(p) == pc[p] \in {"parse", "encode", "prove", "proving", "assemble", "write"}

SerializedStrings(json) ==
    {json.hash, json.domain, json.accountSalt, json.templateId, json.emailAuthMsg.proof}
        \cup {json.emailAuthMsg.command_params[i].value :
                  i \in DOMAIN json.emailAuthMsg.command_params}
ParsedMentions(parsed, v) ==
    \/ Mentions(parsed.canonicalized_header, v)
    \/ \E i \in DOMAIN parsed.canonicalized_body : parsed.canonicalized_body[i] = Arg(v)
SaltLogged(p) ==
    \/ \E i \in DOMAIN logged[p] : ParsedMentions(logged[p][i].value, args[p].account_salt)
    \/ \E i \in DOMAIN stdout[p] : \E j \in DOMAIN stdout[p][i] :
           stdout[p][i][j] = Arg(args[p].account_salt)

C10_TemplateIdConsistent ==
    \A p \in Procs : IsSome(email_auth_msg[p]) =>
        /\ calls[p][2].fn = "get_encoded_command_params"
        /\ calls[p][3].fn = "generate_email_proof"
        /\ Msg(p).template_id = Unwrap(calls[p][2].request).email_tx_auth.template_id
        /\ Msg(p).template_id = Unwrap(calls[p][3].request).email_tx_auth.template_id

C10_Witness ==
    \E p \in Procs :
        /\ IsSome(email_auth_msg[p])
        /\ Msg(p).template_id = 2
        /\ Unwrap(calls[p][2].request).email_tx_auth.template_id = 2

=============================================================================
